---- MODULE Spec2Model ----
(***************************************************************************)
(* Type-erased reference-counted handles of pared: TypeErasedRc /          *)
(* TypeErasedArc, their weak counterparts, and the lifecycle tables        *)
(* (RcErased, sync ArcErased, the older forget-based ArcErased) they       *)
(* dispatch through.  The reference-counting primitive (alloc::rc,         *)
(* alloc::sync) is modelled by its counters: the control block holds the   *)
(* strong count and the weak count, the latter including the one implicit  *)
(* weak reference that all strong references own together.                 *)
(***************************************************************************)
EXTENDS Integers, Sequences, FiniteSets, Bags, TLC

\* Bound on the number of owners (handles and un-erased Rc/Arc) alive at once.
MaxHandles == 4

\* Bound on the value a call-counting equality lets its counter reach.
MaxCalls == 4

VARIABLES
    variant,    \* the lifecycle table family the allocation is erased with
    heap,       \* the control block and payload status of the allocation
    mem,        \* the payload's interior-mutable contents
    rcs,        \* number of live un-erased Rc<T>/Arc<T> owners
    handles,    \* bag of live erased handles
    ret,        \* the last operation and what it returned
    th          \* per thread: the step it is at inside an atomic-variant operation

vars == <<variant, heap, mem, rcs, handles, ret, th>>

Variants == {"RcErased", "ArcErased", "ArcErasedForget"}

\* ------------------------------------------------------------------------
\* Erased pointers and handles

\* TypeErasedPtr::new(Arc::into_raw(arc)): the address, and which kind of
\* smart pointer it was taken from.
ArcPtr == [addr |-> "alloc", of |-> "Arc"]

\* TypeErasedPtr::new(Weak::into_raw(weak))
WeakPtr == [addr |-> "alloc", of |-> "Weak"]

NoPtr == [addr |-> "null", of |-> "none"]

NoHandle == [type |-> "none", ptr |-> NoPtr, vtable |-> "none"]

\* struct TypeErasedArc / TypeErasedRc { ptr, vtable }
StrongHandle(p, vt) == [type |-> "Strong", ptr |-> p, vtable |-> vt]

\* struct TypeErasedWeak { ptr, vtable }
WeakHandle(p, vt) == [type |-> "Weak", ptr |-> p, vtable |-> vt]

\* ------------------------------------------------------------------------
\* The reference-counting primitive, on a control block
\*   cb = [strong, weak, data, dropped, freed, fault]
\* data is "live" until the payload's destructor has run; dropped counts the
\* destructor's runs (DROPPED_COUNT of the tests); freed counts releases of
\* the storage; fault records an access the primitive does not allow (a
\* control block used after its release, a count decremented below zero, a
\* pointer of the wrong kind).

\* Arc::new(payload) / Rc::new(payload)
NewBlock == [strong |-> 1, weak |-> 1, data |-> "live", dropped |-> 0,
             freed |-> 0, fault |-> FALSE]

\* Arc::from_raw(ptr.as_ptr()) on a strong pointer: any use of the block.
FromRawArc(ptr, cb) ==
    IF ptr.of # "Arc" \/ cb.freed > 0 \/ cb.strong = 0
    THEN [cb EXCEPT !.fault = TRUE] ELSE cb

\* Weak::from_raw(ptr.as_ptr()) on a weak pointer.
FromRawWeak(ptr, cb) ==
    IF ptr.of # "Weak" \/ cb.freed > 0 \/ cb.weak = 0
    THEN [cb EXCEPT !.fault = TRUE] ELSE cb

\* drop of a Weak<T>: the weak count goes down, the last one releases the storage.
DropWeakRef(cb) ==
    IF cb.weak = 0 THEN [cb EXCEPT !.fault = TRUE]
    ELSE IF cb.weak = 1 THEN [cb EXCEPT !.weak = 0, !.freed = @ + 1]
    ELSE [cb EXCEPT !.weak = @ - 1]

\* drop of an Arc<T>/Rc<T>: the strong count goes down; the one that reaches
\* zero runs the payload's destructor and drops the implicit weak reference.
DropStrongRef(cb) ==
    IF cb.strong = 0 THEN [cb EXCEPT !.fault = TRUE]
    ELSE IF cb.strong = 1
         THEN DropWeakRef([cb EXCEPT !.strong = 0, !.data = "dropped",
                                     !.dropped = @ + 1])
         ELSE [cb EXCEPT !.strong = @ - 1]

\* Arc::increment_strong_count(ptr) / arc.clone()
IncStrong(cb) == [cb EXCEPT !.strong = @ + 1]

\* Arc::downgrade(&arc) / weak.clone(): one more weak reference.
IncWeak(cb) == [cb EXCEPT !.weak = @ + 1]

\* Arc::strong_count(&arc)
StrongCountOf(cb) == cb.strong

\* Arc::weak_count(&arc): the implicit weak reference is not counted.
WeakCountOf(cb) == cb.weak - 1

\* Weak::strong_count(&weak)
WeakStrongCountOf(cb) == cb.strong

\* Weak::weak_count(&weak): 0 once no strong reference is left.
WeakWeakCountOf(cb) == IF cb.strong = 0 THEN 0 ELSE cb.weak - 1

\* Weak::upgrade(&weak), as one step: increment the strong count unless it is 0.
UpgradeRef(cb) ==
    IF cb.strong = 0 THEN [ok |-> FALSE, cb |-> cb]
    ELSE [ok |-> TRUE, cb |-> IncStrong(cb)]

\* ------------------------------------------------------------------------
\* RcErased<T>: the lifecycle table of Rc<T> and rc::Weak<T> (prc/erased_rc.rs)

\* as_manually_drop_rc: the Rc rebuilt from the raw pointer is wrapped in
\* ManuallyDrop, so the end of its scope drops nothing.
RcErased_as_manually_drop_rc(ptr, cb) == FromRawArc(ptr, cb)

\* as_manually_drop_weak
RcErased_as_manually_drop_weak(ptr, cb) == FromRawWeak(ptr, cb)

\* as_ptr: the address of the payload.
RcErased_as_ptr(ptr, cb) ==
    [cb |-> RcErased_as_manually_drop_rc(ptr, cb), val |-> "payload"]

\* Mutant of RcErased_clone: the Rc is rebuilt and cloned, and the rebuilt Rc
\* dropped at the end of the scope.
RcErased_clone_Dropped(ptr, cb) == DropStrongRef(IncStrong(FromRawArc(ptr, cb)))

RcErased_clone(ptr, cb) == IncStrong(FromRawArc(ptr, cb))

RcErased_drop(ptr, cb) == DropStrongRef(FromRawArc(ptr, cb))

RcErased_downgrade(ptr, cb) ==
    [cb |-> IncWeak(RcErased_as_manually_drop_rc(ptr, cb)), val |-> WeakPtr]

RcErased_strong_count(ptr, cb) ==
    LET arc == RcErased_as_manually_drop_rc(ptr, cb)
    IN  [cb |-> arc, val |-> StrongCountOf(arc)]

RcErased_weak_count(ptr, cb) ==
    LET arc == RcErased_as_manually_drop_rc(ptr, cb)
    IN  [cb |-> arc, val |-> WeakCountOf(arc)]

\* clone_weak: weak is a ManuallyDrop<Weak<T>>, so weak.clone() is ManuallyDrop's
\* Clone and _cloned a ManuallyDrop too: the new weak reference is never dropped.
RcErased_clone_weak(ptr, cb) == IncWeak(RcErased_as_manually_drop_weak(ptr, cb))

\* Mutant of RcErased_drop_weak: the Weak is viewed through ManuallyDrop, so
\* the weak reference is never released.
RcErased_drop_weak_ManuallyDrop(ptr, cb) == RcErased_as_manually_drop_weak(ptr, cb)

RcErased_drop_weak(ptr, cb) == DropWeakRef(FromRawWeak(ptr, cb))

\* Mutant of RcErased_upgrade_weak: the strong count is incremented without
\* the test for zero.
RcErased_upgrade_weak_Unchecked(ptr, cb) ==
    [cb |-> IncStrong(RcErased_as_manually_drop_weak(ptr, cb)), val |-> ArcPtr]

\* Mutant of RcErased_upgrade_weak: the pointer is taken with Rc::as_ptr
\* instead of Rc::into_raw, so the upgraded Rc is dropped at the end of the
\* call and the strong count is back where it was.
RcErased_upgrade_weak_AsPtr(ptr, cb) ==
    LET r == UpgradeRef(RcErased_as_manually_drop_weak(ptr, cb))
    IN  [cb |-> IF r.ok THEN DropStrongRef(r.cb) ELSE r.cb,
         val |-> IF r.ok THEN ArcPtr ELSE NoPtr]

RcErased_upgrade_weak(ptr, cb) ==
    LET r == UpgradeRef(RcErased_as_manually_drop_weak(ptr, cb))
    IN  [cb |-> r.cb, val |-> IF r.ok THEN ArcPtr ELSE NoPtr]

RcErased_strong_count_weak(ptr, cb) ==
    LET weak == RcErased_as_manually_drop_weak(ptr, cb)
    IN  [cb |-> weak, val |-> WeakStrongCountOf(weak)]

\* Mutant of RcErased_weak_count_weak: the count the allocation tracks (less
\* the implicit reference) is returned whatever the strong count.
RcErased_weak_count_weak_Raw(ptr, cb) ==
    LET weak == RcErased_as_manually_drop_weak(ptr, cb)
    IN  [cb |-> weak, val |-> IF weak.strong = 0 THEN weak.weak ELSE weak.weak - 1]

RcErased_weak_count_weak(ptr, cb) ==
    LET weak == RcErased_as_manually_drop_weak(ptr, cb)
    IN  [cb |-> weak, val |-> WeakWeakCountOf(weak)]

\* ------------------------------------------------------------------------
\* ArcErased<T>: the lifecycle table of Arc<T> and sync::Weak<T> (sync/erased_arc.rs)

\* as_manually_drop_arc: the Arc rebuilt from the raw pointer is wrapped in
\* ManuallyDrop, so the end of its scope drops nothing.
ArcErased_as_manually_drop_arc(ptr, cb) == FromRawArc(ptr, cb)

\* as_manually_drop_weak
ArcErased_as_manually_drop_weak(ptr, cb) == FromRawWeak(ptr, cb)

\* as_ptr: the address of the payload.
ArcErased_as_ptr(ptr, cb) ==
    [cb |-> ArcErased_as_manually_drop_arc(ptr, cb), val |-> "payload"]

\* Mutant of ArcErased_clone: the Arc is rebuilt and cloned, and the rebuilt
\* Arc dropped at the end of the scope.
ArcErased_clone_Dropped(ptr, cb) == DropStrongRef(IncStrong(FromRawArc(ptr, cb)))

ArcErased_clone(ptr, cb) == IncStrong(FromRawArc(ptr, cb))

\* Mutant of ArcErased_drop: the Arc is rebuilt under ManuallyDrop, as in the
\* reading operations, so the strong reference is never released.
ArcErased_drop_ManuallyDrop(ptr, cb) == ArcErased_as_manually_drop_arc(ptr, cb)

ArcErased_drop(ptr, cb) == DropStrongRef(FromRawArc(ptr, cb))

ArcErased_downgrade(ptr, cb) ==
    [cb |-> IncWeak(ArcErased_as_manually_drop_arc(ptr, cb)), val |-> WeakPtr]

ArcErased_strong_count(ptr, cb) ==
    LET arc == ArcErased_as_manually_drop_arc(ptr, cb)
    IN  [cb |-> arc, val |-> StrongCountOf(arc)]

\* Mutant of ArcErased_weak_count: Arc::strong_count is called instead.
ArcErased_weak_count_StrongCount(ptr, cb) ==
    LET arc == ArcErased_as_manually_drop_arc(ptr, cb)
    IN  [cb |-> arc, val |-> StrongCountOf(arc)]

ArcErased_weak_count(ptr, cb) ==
    LET arc == ArcErased_as_manually_drop_arc(ptr, cb)
    IN  [cb |-> arc, val |-> WeakCountOf(arc)]

\* Mutant of ArcErased_clone_weak: the clone is a plain Weak<T>
\* (Weak::clone(&weak)), dropped at the end of the call.
ArcErased_clone_weak_Dropped(ptr, cb) ==
    DropWeakRef(IncWeak(ArcErased_as_manually_drop_weak(ptr, cb)))

\* clone_weak: weak is a ManuallyDrop<Weak<T>>, so weak.clone() is ManuallyDrop's
\* Clone and _cloned a ManuallyDrop too: the new weak reference is never dropped.
ArcErased_clone_weak(ptr, cb) == IncWeak(ArcErased_as_manually_drop_weak(ptr, cb))

\* Mutant of ArcErased_drop_weak: the pointer is rebuilt as an Arc, so a strong
\* reference is released.
ArcErased_drop_weak_AsArc(ptr, cb) ==
    DropStrongRef(ArcErased_as_manually_drop_weak(ptr, cb))

ArcErased_drop_weak(ptr, cb) == DropWeakRef(FromRawWeak(ptr, cb))

\* Mutant of ArcErased_upgrade_weak: the strong count is incremented without
\* the test for zero.
ArcErased_upgrade_weak_Unchecked(ptr, cb) ==
    [cb |-> IncStrong(ArcErased_as_manually_drop_weak(ptr, cb)), val |-> ArcPtr]

\* Mutant of ArcErased_upgrade_weak: the Weak is rebuilt without ManuallyDrop,
\* so its drop at the end of the scope releases a weak reference.
ArcErased_upgrade_weak_DropsWeak(ptr, cb) ==
    LET r == UpgradeRef(FromRawWeak(ptr, cb))
    IN  [cb |-> DropWeakRef(r.cb), val |-> IF r.ok THEN ArcPtr ELSE NoPtr]

ArcErased_upgrade_weak(ptr, cb) ==
    LET r == UpgradeRef(ArcErased_as_manually_drop_weak(ptr, cb))
    IN  [cb |-> r.cb, val |-> IF r.ok THEN ArcPtr ELSE NoPtr]

\* Mutant of ArcErased_strong_count_weak: Weak::weak_count is called instead.
ArcErased_strong_count_weak_WeakCount(ptr, cb) ==
    LET weak == ArcErased_as_manually_drop_weak(ptr, cb)
    IN  [cb |-> weak, val |-> WeakWeakCountOf(weak)]

ArcErased_strong_count_weak(ptr, cb) ==
    LET weak == ArcErased_as_manually_drop_weak(ptr, cb)
    IN  [cb |-> weak, val |-> WeakStrongCountOf(weak)]

\* Mutant of ArcErased_weak_count_weak: the Weak is rebuilt without
\* ManuallyDrop, so its drop at the end of the scope releases a weak reference.
ArcErased_weak_count_weak_DropsWeak(ptr, cb) ==
    LET weak == FromRawWeak(ptr, cb)
    IN  [cb |-> DropWeakRef(weak), val |-> WeakWeakCountOf(weak)]

ArcErased_weak_count_weak(ptr, cb) ==
    LET weak == ArcErased_as_manually_drop_weak(ptr, cb)
    IN  [cb |-> weak, val |-> WeakWeakCountOf(weak)]

\* ------------------------------------------------------------------------
\* ArcErased<T> of erased_arc.rs: the same table written with mem::forget.

\* as_arc: an owning Arc<T> rebuilt from the raw pointer; whoever holds it
\* must forget it or its drop releases one strong reference.
Forget_as_arc(ptr, cb) == FromRawArc(ptr, cb)

\* as_weak
Forget_as_weak(ptr, cb) == FromRawWeak(ptr, cb)

\* std::mem::forget(x): the value's destructor does not run.
Forget(cb) == cb

Forget_clone(ptr, cb) == IncStrong(FromRawArc(ptr, cb))

\* drop: the Arc returned by as_arc is a temporary, dropped at once.
Forget_drop(ptr, cb) == DropStrongRef(Forget_as_arc(ptr, cb))

\* Mutant of Forget_downgrade: the rebuilt Arc is not forgotten, so its drop
\* releases a strong reference.
Forget_downgrade_NoForget(ptr, cb) ==
    [cb |-> DropStrongRef(IncWeak(Forget_as_arc(ptr, cb))), val |-> WeakPtr]

Forget_downgrade(ptr, cb) ==
    [cb |-> Forget(IncWeak(Forget_as_arc(ptr, cb))), val |-> WeakPtr]

\* Mutant of Forget_strong_count: the rebuilt Arc is not forgotten, so its
\* drop releases a strong reference.
Forget_strong_count_NoForget(ptr, cb) ==
    LET arc == Forget_as_arc(ptr, cb)
    IN  [cb |-> DropStrongRef(arc), val |-> StrongCountOf(arc)]

Forget_strong_count(ptr, cb) ==
    LET arc == Forget_as_arc(ptr, cb)
    IN  [cb |-> Forget(arc), val |-> StrongCountOf(arc)]

Forget_weak_count(ptr, cb) ==
    LET arc == Forget_as_arc(ptr, cb)
    IN  [cb |-> Forget(arc), val |-> WeakCountOf(arc)]

\* Mutant of Forget_clone_weak: only the clone is forgotten, so the rebuilt
\* Weak is dropped at the end of the call and releases a weak reference.
Forget_clone_weak_OneForget(ptr, cb) ==
    DropWeakRef(IncWeak(Forget_as_weak(ptr, cb)))

\* clone_weak: both the clone and the rebuilt Weak are forgotten.
Forget_clone_weak(ptr, cb) == Forget(Forget(IncWeak(Forget_as_weak(ptr, cb))))

Forget_drop_weak(ptr, cb) == DropWeakRef(Forget_as_weak(ptr, cb))

\* Mutant of Forget_upgrade_weak: the strong count is incremented without
\* the test for zero.
Forget_upgrade_weak_Unchecked(ptr, cb) ==
    [cb |-> IncStrong(Forget_as_weak(ptr, cb)), val |-> ArcPtr]

Forget_upgrade_weak(ptr, cb) ==
    LET r == UpgradeRef(Forget_as_weak(ptr, cb))
    IN  [cb |-> Forget(r.cb), val |-> IF r.ok THEN ArcPtr ELSE NoPtr]

Forget_strong_count_weak(ptr, cb) ==
    LET weak == Forget_as_weak(ptr, cb)
    IN  [cb |-> Forget(weak), val |-> WeakStrongCountOf(weak)]

Forget_weak_count_weak(ptr, cb) ==
    LET weak == Forget_as_weak(ptr, cb)
    IN  [cb |-> Forget(weak), val |-> WeakWeakCountOf(weak)]

\* ------------------------------------------------------------------------
\* Dispatch through the table a handle carries: (self.vtable.op)(self.ptr)

vtable_clone(vt, ptr, cb) ==
    CASE vt = "RcErased" -> RcErased_clone(ptr, cb)
      [] vt = "ArcErased" -> ArcErased_clone(ptr, cb)
      [] vt = "ArcErasedForget" -> Forget_clone(ptr, cb)

vtable_drop(vt, ptr, cb) ==
    CASE vt = "RcErased" -> RcErased_drop(ptr, cb)
      [] vt = "ArcErased" -> ArcErased_drop(ptr, cb)
      [] vt = "ArcErasedForget" -> Forget_drop(ptr, cb)

vtable_downgrade(vt, ptr, cb) ==
    CASE vt = "RcErased" -> RcErased_downgrade(ptr, cb)
      [] vt = "ArcErased" -> ArcErased_downgrade(ptr, cb)
      [] vt = "ArcErasedForget" -> Forget_downgrade(ptr, cb)

vtable_strong_count(vt, ptr, cb) ==
    CASE vt = "RcErased" -> RcErased_strong_count(ptr, cb)
      [] vt = "ArcErased" -> ArcErased_strong_count(ptr, cb)
      [] vt = "ArcErasedForget" -> Forget_strong_count(ptr, cb)

vtable_weak_count(vt, ptr, cb) ==
    CASE vt = "RcErased" -> RcErased_weak_count(ptr, cb)
      [] vt = "ArcErased" -> ArcErased_weak_count(ptr, cb)
      [] vt = "ArcErasedForget" -> Forget_weak_count(ptr, cb)

vtable_clone_weak(vt, ptr, cb) ==
    CASE vt = "RcErased" -> RcErased_clone_weak(ptr, cb)
      [] vt = "ArcErased" -> ArcErased_clone_weak(ptr, cb)
      [] vt = "ArcErasedForget" -> Forget_clone_weak(ptr, cb)

vtable_drop_weak(vt, ptr, cb) ==
    CASE vt = "RcErased" -> RcErased_drop_weak(ptr, cb)
      [] vt = "ArcErased" -> ArcErased_drop_weak(ptr, cb)
      [] vt = "ArcErasedForget" -> Forget_drop_weak(ptr, cb)

vtable_upgrade_weak(vt, ptr, cb) ==
    CASE vt = "RcErased" -> RcErased_upgrade_weak(ptr, cb)
      [] vt = "ArcErased" -> ArcErased_upgrade_weak(ptr, cb)
      [] vt = "ArcErasedForget" -> Forget_upgrade_weak(ptr, cb)

vtable_strong_count_weak(vt, ptr, cb) ==
    CASE vt = "RcErased" -> RcErased_strong_count_weak(ptr, cb)
      [] vt = "ArcErased" -> ArcErased_strong_count_weak(ptr, cb)
      [] vt = "ArcErasedForget" -> Forget_strong_count_weak(ptr, cb)

vtable_weak_count_weak(vt, ptr, cb) ==
    CASE vt = "RcErased" -> RcErased_weak_count_weak(ptr, cb)
      [] vt = "ArcErased" -> ArcErased_weak_count_weak(ptr, cb)
      [] vt = "ArcErasedForget" -> Forget_weak_count_weak(ptr, cb)

\* ------------------------------------------------------------------------
\* The handles: TypeErasedRc / TypeErasedArc and TypeErasedWeak

\* TypeErasedArc::new(arc): the handle takes over the Arc's strong reference.
TypeErasedArc_new(vt) == StrongHandle(ArcPtr, vt)

\* Mutant of TypeErasedArc_clone: the fields are copied, the table's clone is
\* not called.
TypeErasedArc_clone_CopyOnly(self, cb) ==
    [cb |-> cb, val |-> StrongHandle(self.ptr, self.vtable)]

\* impl Clone for TypeErasedArc: (vtable.clone)(ptr), then Self { ..*self }
TypeErasedArc_clone(self, cb) ==
    [cb |-> vtable_clone(self.vtable, self.ptr, cb),
     val |-> StrongHandle(self.ptr, self.vtable)]

\* impl Drop for TypeErasedArc
TypeErasedArc_drop(self, cb) == vtable_drop(self.vtable, self.ptr, cb)

\* Mutant of TypeErasedArc_downgrade: the Weak Handle is given the table of
\* sync ArcErased whatever table the Strong Handle carries.
TypeErasedArc_downgrade_FixedTable(self, cb) ==
    LET r == vtable_downgrade(self.vtable, self.ptr, cb)
    IN  [cb |-> r.cb, val |-> WeakHandle(r.val, "ArcErased")]

\* TypeErasedArc::downgrade
TypeErasedArc_downgrade(self, cb) ==
    LET r == vtable_downgrade(self.vtable, self.ptr, cb)
    IN  [cb |-> r.cb, val |-> WeakHandle(r.val, self.vtable)]

\* TypeErasedArc::strong_count
TypeErasedArc_strong_count(self, cb) ==
    vtable_strong_count(self.vtable, self.ptr, cb)

\* TypeErasedArc::weak_count
TypeErasedArc_weak_count(self, cb) ==
    vtable_weak_count(self.vtable, self.ptr, cb)

\* Mutant of TypeErasedWeak_upgrade: the Strong Handle is built with the
\* pointer of the Weak Handle (Self { ..*self }-style copy) and not with the
\* pointer upgrade_weak returned.
TypeErasedWeak_upgrade_CopiesPtr(self, cb) ==
    LET r == vtable_upgrade_weak(self.vtable, self.ptr, cb)
    IN  [cb |-> r.cb,
         val |-> IF r.val = NoPtr THEN NoHandle
                 ELSE StrongHandle(self.ptr, self.vtable)]

\* TypeErasedWeak::upgrade: None when upgrade_weak returns None.
TypeErasedWeak_upgrade(self, cb) ==
    LET r == vtable_upgrade_weak(self.vtable, self.ptr, cb)
    IN  [cb |-> r.cb,
         val |-> IF r.val = NoPtr THEN NoHandle
                 ELSE StrongHandle(r.val, self.vtable)]

\* TypeErasedWeak::strong_count
TypeErasedWeak_strong_count(self, cb) ==
    vtable_strong_count_weak(self.vtable, self.ptr, cb)

\* TypeErasedWeak::weak_count
TypeErasedWeak_weak_count(self, cb) ==
    vtable_weak_count_weak(self.vtable, self.ptr, cb)

\* impl Clone for TypeErasedWeak
TypeErasedWeak_clone(self, cb) ==
    [cb |-> vtable_clone_weak(self.vtable, self.ptr, cb),
     val |-> WeakHandle(self.ptr, self.vtable)]

\* impl Drop for TypeErasedWeak
TypeErasedWeak_drop(self, cb) == vtable_drop_weak(self.vtable, self.ptr, cb)

\* ------------------------------------------------------------------------
\* Projected handles: Parc<T> / Prc<T> { owner, view } and their Weak
\* { weak owner, cached view }.

\* Addresses a view may hold: the payload itself (what as_ptr returns), or
\* one of its members.
Views == {"payload", "a"}

\* The transforms handed to project: the identity (an unsizing coercion, a
\* conversion of the whole) and the projection to member a.
Transforms == {"id", "a"}

ParcHandle(owner, view) == [type |-> "Parc", arc |-> owner, projected |-> view]

ParcWeakHandle(owner, view) == [type |-> "ParcWeak", weak |-> owner, projected |-> view]

\* Which transforms apply to the referent of a view: a member has no members.
Applies(f, view) == f = "id" \/ view = "payload"

\* Mutant of TransformView: the transform is applied to the owner's payload
\* and not to the referent of the current view.
TransformView_FromOwner(f, view) == IF f = "id" THEN "payload" ELSE f

\* The address a transform returns, computed from the referent of `view`.
TransformView(f, view) == IF f = "id" THEN view ELSE f

\* Parc::from(arc): erase the Arc; the view is the payload's address.
Parc_from(vt) == ParcHandle(TypeErasedArc_new(vt), "payload")

\* parc.project(f): a clone of the owner, and the view f computes from the
\* current view's referent.
Parc_project(self, f, cb) ==
    LET r == TypeErasedArc_clone(self.arc, cb)
    IN  [cb |-> r.cb, val |-> ParcHandle(r.val, TransformView(f, self.projected))]

\* parc.clone()
Parc_clone(self, cb) ==
    LET r == TypeErasedArc_clone(self.arc, cb)
    IN  [cb |-> r.cb, val |-> ParcHandle(r.val, self.projected)]

\* drop of a Parc: its owner is dropped.
Parc_drop(self, cb) == TypeErasedArc_drop(self.arc, cb)

\* Parc::downgrade(&parc): the weak owner and the view address, cached.
Parc_downgrade(self, cb) ==
    LET r == TypeErasedArc_downgrade(self.arc, cb)
    IN  [cb |-> r.cb, val |-> ParcWeakHandle(r.val, self.projected)]

\* weak.clone() of a projected weak handle
ParcWeak_clone(self, cb) ==
    LET r == TypeErasedWeak_clone(self.weak, cb)
    IN  [cb |-> r.cb, val |-> ParcWeakHandle(r.val, self.projected)]

\* drop of a projected weak handle
ParcWeak_drop(self, cb) == TypeErasedWeak_drop(self.weak, cb)

\* weak.upgrade() of a projected weak handle: upgrade the weak owner; on
\* success pair it with the cached view, on failure return nothing.
ParcWeak_upgrade(self, cb) ==
    LET r == TypeErasedWeak_upgrade(self.weak, cb)
    IN  [cb |-> r.cb,
         val |-> IF r.val = NoHandle THEN NoHandle
                 ELSE ParcHandle(r.val, self.projected)]

\* What a view address holds in payload contents m.
ReadView(view, m) == IF view = "payload" THEN m ELSE m[view]

\* *parc: the view, dereferenced; reading a destroyed payload is a fault.
Parc_deref(self, m, cb) ==
    [cb |-> IF cb.data = "live" THEN cb ELSE [cb EXCEPT !.fault = TRUE],
     val |-> ReadView(self.projected, m)]

\* The address of the interior-mutable member a as reached through a view:
\* &s.a from the whole payload, the view itself when it is that member.
MemberAddr(view) == IF view = "payload" THEN "a" ELSE view

\* Mutant of Parc_write: projection copied the member, so a write through a
\* projected view lands in the copy and not in the owner's payload.
Parc_write_Copy(self, v, m, cb) ==
    [cb |-> IF cb.data = "live" THEN cb ELSE [cb EXCEPT !.fault = TRUE],
     val |-> IF self.projected = "payload" THEN [m EXCEPT !.a = v] ELSE m]

\* *parc.a.borrow_mut() = v, or *projected.borrow_mut() = v: the value is
\* stored at the member's address in the owner's payload.
Parc_write(self, v, m, cb) ==
    [cb |-> IF cb.data = "live" THEN cb ELSE [cb EXCEPT !.fault = TRUE],
     val |-> [m EXCEPT ![MemberAddr(self.projected)] = v]]

\* *parc.a.borrow(), or *projected.borrow(): the member read through a handle.
Parc_read(self, m, cb) ==
    LET r == Parc_deref(self, m, cb)
    IN  [cb |-> r.cb,
         val |-> IF self.projected = "payload" THEN r.val.a ELSE r.val]

\* ------------------------------------------------------------------------
\* Value-level operations of a projected handle, on payloads
\*   m = [ty, unused, a]
\* whose member a is of type ty: an f32 (the sign, exponent and fraction
\* fields of its bits), a TestPEq (the counter in its RefCell) or a String.

\* f32::is_nan: exponent all ones, fraction not zero.
F32IsNaN(x) == x.exp = 255 /\ x.frac # 0

\* Mutant of F32Eq: the bits are compared.
F32Eq_Bitwise(x, y) == x = y

\* f32's ==: false when an operand is NaN; +0.0 equals -0.0.
F32Eq(x, y) ==
    /\ ~F32IsNaN(x)
    /\ ~F32IsNaN(y)
    /\ (x = y \/ (x.exp = 0 /\ x.frac = 0 /\ y.exp = 0 /\ y.frac = 0))

\* Mutant of TestPEq_eq: only self's counter is incremented.
TestPEq_eq_SelfOnly(x, y, m) == [mem |-> [m EXCEPT ![x] = @ + 1], val |-> TRUE]

\* impl PartialEq for TestPEq: the counter of self, then the counter of other,
\* goes up by one; the answer is true.  x and y are the operands' addresses.
TestPEq_eq(x, y, m) ==
    LET m1 == [m EXCEPT ![x] = @ + 1]
    IN  [mem |-> [m1 EXCEPT ![y] = @ + 1], val |-> TRUE]

\* <T as PartialEq>::eq(x, y) for the member's type
ValueEq(x, y, m) ==
    CASE m.ty = "f32" -> [mem |-> m, val |-> F32Eq(m[x], m[y])]
      [] m.ty = "TestPEq" -> TestPEq_eq(x, y, m)
      [] m.ty = "String" -> [mem |-> m, val |-> m[x] = m[y]]

\* <T as PartialEq>::ne(x, y): !(x == y), one call of eq.
ValueNe(x, y, m) ==
    LET r == ValueEq(x, y, m)
    IN  [mem |-> r.mem, val |-> ~r.val]

\* <String as Display>::fmt(x, f): the text is appended to the formatter's buffer.
String_fmt(x, f, m) == f \o m[x]

\* Mutant of Parc_eq: handles with the same view address are equal without
\* the view type's equality being asked.
Parc_eq_PtrShortcut(self, other, m) ==
    IF self.projected = other.projected THEN [mem |-> m, val |-> TRUE]
    ELSE ValueEq(self.projected, other.projected, m)

\* parc == other: **self == **other, each view dereferenced once.
Parc_eq(self, other, m) == ValueEq(self.projected, other.projected, m)

\* parc != other: **self != **other
Parc_ne(self, other, m) == ValueNe(self.projected, other.projected, m)

\* format!("{}", parc): Display::fmt(&**self, f) into an empty buffer.
Parc_fmt(self, m) == String_fmt(self.projected, "", m)

\* ------------------------------------------------------------------------
\* The program state and its operations

One(h) == SetToBag({h})

Live == BagToSet(handles)

LiveStrong == {h \in Live : h.type = "Strong"}

LiveWeak == {h \in Live : h.type = "Weak"}

LiveParc == {h \in Live : h.type = "Parc"}

LiveParcWeak == {h \in Live : h.type = "ParcWeak"}

\* Owners alive: every handle and every un-erased Rc/Arc.
Owners == BagCardinality(handles) + rcs

\* How many live handles are of one of the given types.
NumOf(types) ==
    BagCardinality([h \in {x \in Live : x.type \in types} |-> handles[h]])

\* Live Strong Handles: bare ones and the owners of projected handles.
NumStrong == NumOf({"Strong", "Parc"})

\* Live Weak Handles: bare ones and the weak owners of projected weak handles.
NumWeak == NumOf({"Weak", "ParcWeak"})

\* Live strong owners of the allocation: the Strong Handles and, where the
\* caller kept one, the un-erased Rc/Arc.
StrongOwners == NumStrong + rcs

\* The TypeErasedArc of every live strong handle.
StrongParts == LiveStrong \cup {p.arc : p \in LiveParc}

\* The TypeErasedWeak of every live weak handle.
WeakParts == LiveWeak \cup {w.weak : w \in LiveParcWeak}

Result(op, self, val, out) == [op |-> op, self |-> self, val |-> val, out |-> out]

InitMem == [unused |-> 64, a |-> 432]

\* The values written to member a.
Vals == {432, 15}

\* The threads sharing handles of the atomic variant.
Threads == {"t1", "t2"}

\* A thread between two operations.
Idle == [pc |-> "idle", self |-> NoHandle, n |-> 0, out |-> NoHandle]

\* let arc = Arc::new(payload);
Init ==
    /\ variant \in Variants
    /\ heap = NewBlock
    /\ mem = InitMem
    /\ rcs = 1
    /\ handles = EmptyBag
    /\ ret = Result("Arc::new", NoHandle, 0, NoHandle)
    /\ th = [t \in Threads |-> Idle]

\* arc.clone() on an un-erased Arc/Rc
RcClone ==
    /\ rcs > 0
    /\ Owners < MaxHandles
    /\ heap' = IncStrong(heap)
    /\ rcs' = rcs + 1
    /\ ret' = Result("Arc::clone", NoHandle, 0, NoHandle)
    /\ UNCHANGED <<variant, th, mem, handles>>

\* core::mem::drop(arc) on an un-erased Arc/Rc
RcDrop ==
    /\ rcs > 0
    /\ heap' = DropStrongRef(heap)
    /\ rcs' = rcs - 1
    /\ ret' = Result("Arc::drop", NoHandle, 0, NoHandle)
    /\ UNCHANGED <<variant, th, mem, handles>>

\* Mutant of New: the pointer is taken with Arc::as_ptr instead of
\* Arc::into_raw, so the Arc moved into new is dropped when new returns.
New_AsPtr ==
    /\ rcs > 0
    /\ rcs' = rcs - 1
    /\ heap' = DropStrongRef(heap)
    /\ LET h == TypeErasedArc_new(variant)
       IN  /\ handles' = handles (+) One(h)
           /\ ret' = Result("new", NoHandle, 0, h)
    /\ UNCHANGED <<variant, th, mem>>

\* TypeErasedArc::new(arc): the Arc is moved into the handle.
New ==
    /\ rcs > 0
    /\ rcs' = rcs - 1
    /\ LET h == TypeErasedArc_new(variant)
       IN  /\ handles' = handles (+) One(h)
           /\ ret' = Result("new", NoHandle, 0, h)
    /\ UNCHANGED <<variant, th, heap, mem>>

\* erased.clone()
Clone(h) ==
    /\ Owners < MaxHandles
    /\ LET r == TypeErasedArc_clone(h, heap)
       IN  /\ heap' = r.cb
           /\ handles' = handles (+) One(r.val)
           /\ ret' = Result("clone", h, 0, r.val)
    /\ UNCHANGED <<variant, th, mem, rcs>>

\* core::mem::drop(erased)
Drop(h) ==
    /\ heap' = TypeErasedArc_drop(h, heap)
    /\ handles' = handles (-) One(h)
    /\ ret' = Result("drop", h, 0, NoHandle)
    /\ UNCHANGED <<variant, th, mem, rcs>>

\* erased.downgrade()
Downgrade(h) ==
    /\ Owners < MaxHandles
    /\ LET r == TypeErasedArc_downgrade(h, heap)
       IN  /\ heap' = r.cb
           /\ handles' = handles (+) One(r.val)
           /\ ret' = Result("downgrade", h, 0, r.val)
    /\ UNCHANGED <<variant, th, mem, rcs>>

\* erased.strong_count()
StrongCount(h) ==
    /\ LET r == TypeErasedArc_strong_count(h, heap)
       IN  /\ heap' = r.cb
           /\ ret' = Result("strong_count", h, r.val, NoHandle)
    /\ UNCHANGED <<variant, th, mem, rcs, handles>>

\* erased.weak_count()
WeakCount(h) ==
    /\ LET r == TypeErasedArc_weak_count(h, heap)
       IN  /\ heap' = r.cb
           /\ ret' = Result("weak_count", h, r.val, NoHandle)
    /\ UNCHANGED <<variant, th, mem, rcs, handles>>

\* weak.clone()
CloneWeak(w) ==
    /\ Owners < MaxHandles
    /\ LET r == TypeErasedWeak_clone(w, heap)
       IN  /\ heap' = r.cb
           /\ handles' = handles (+) One(r.val)
           /\ ret' = Result("clone_weak", w, 0, r.val)
    /\ UNCHANGED <<variant, th, mem, rcs>>

\* core::mem::drop(weak)
DropWeak(w) ==
    /\ heap' = TypeErasedWeak_drop(w, heap)
    /\ handles' = handles (-) One(w)
    /\ ret' = Result("drop_weak", w, 0, NoHandle)
    /\ UNCHANGED <<variant, th, mem, rcs>>

\* weak.upgrade()
Upgrade(w) ==
    /\ heap.strong > 0 => Owners < MaxHandles
    /\ LET r == TypeErasedWeak_upgrade(w, heap)
       IN  /\ heap' = r.cb
           /\ handles' = IF r.val = NoHandle THEN handles
                         ELSE handles (+) One(r.val)
           /\ ret' = Result("upgrade", w, IF r.val = NoHandle THEN 0 ELSE 1, r.val)
    /\ UNCHANGED <<variant, th, mem, rcs>>

\* weak.strong_count()
StrongCountWeak(w) ==
    /\ LET r == TypeErasedWeak_strong_count(w, heap)
       IN  /\ heap' = r.cb
           /\ ret' = Result("strong_count_weak", w, r.val, NoHandle)
    /\ UNCHANGED <<variant, th, mem, rcs, handles>>

\* weak.weak_count()
WeakCountWeak(w) ==
    /\ LET r == TypeErasedWeak_weak_count(w, heap)
       IN  /\ heap' = r.cb
           /\ ret' = Result("weak_count_weak", w, r.val, NoHandle)
    /\ UNCHANGED <<variant, th, mem, rcs, handles>>

\* let p: Parc<T> = arc.into();
ParcFrom ==
    /\ rcs > 0
    /\ rcs' = rcs - 1
    /\ LET p == Parc_from(variant)
       IN  /\ handles' = handles (+) One(p)
           /\ ret' = Result("Parc::from", NoHandle, 0, p)
    /\ UNCHANGED <<variant, th, heap, mem>>

\* parc.project(f)
ParcProject(p, f) ==
    /\ Owners < MaxHandles
    /\ Applies(f, p.projected)
    /\ LET r == Parc_project(p, f, heap)
       IN  /\ heap' = r.cb
           /\ handles' = handles (+) One(r.val)
           /\ ret' = Result("project", p, 0, r.val)
    /\ UNCHANGED <<variant, th, mem, rcs>>

\* parc.clone()
ParcClone(p) ==
    /\ Owners < MaxHandles
    /\ LET r == Parc_clone(p, heap)
       IN  /\ heap' = r.cb
           /\ handles' = handles (+) One(r.val)
           /\ ret' = Result("Parc::clone", p, 0, r.val)
    /\ UNCHANGED <<variant, th, mem, rcs>>

\* drop(parc)
ParcDrop(p) ==
    /\ heap' = Parc_drop(p, heap)
    /\ handles' = handles (-) One(p)
    /\ ret' = Result("Parc::drop", p, 0, NoHandle)
    /\ UNCHANGED <<variant, th, mem, rcs>>

\* Parc::downgrade(&parc)
ParcDowngrade(p) ==
    /\ Owners < MaxHandles
    /\ LET r == Parc_downgrade(p, heap)
       IN  /\ heap' = r.cb
           /\ handles' = handles (+) One(r.val)
           /\ ret' = Result("Parc::downgrade", p, 0, r.val)
    /\ UNCHANGED <<variant, th, mem, rcs>>

\* *parc
ParcDeref(p) ==
    /\ LET r == Parc_deref(p, mem, heap)
       IN  /\ heap' = r.cb
           /\ ret' = Result("deref", p, r.val, NoHandle)
    /\ UNCHANGED <<variant, th, mem, rcs, handles>>

\* *parc.a.borrow_mut() = v / *projected.borrow_mut() = v
ParcWrite(p, v) ==
    /\ LET r == Parc_write(p, v, mem, heap)
       IN  /\ heap' = r.cb
           /\ mem' = r.val
           /\ ret' = Result("write", p, v, NoHandle)
    /\ UNCHANGED <<variant, th, rcs, handles>>

\* *parc.a.borrow() / *projected.borrow()
ParcRead(p) ==
    /\ LET r == Parc_read(p, mem, heap)
       IN  /\ heap' = r.cb
           /\ ret' = Result("read", p, r.val, NoHandle)
    /\ UNCHANGED <<variant, th, mem, rcs, handles>>

\* weak.clone() of a projected weak handle
ParcWeakClone(w) ==
    /\ Owners < MaxHandles
    /\ LET r == ParcWeak_clone(w, heap)
       IN  /\ heap' = r.cb
           /\ handles' = handles (+) One(r.val)
           /\ ret' = Result("ParcWeak::clone", w, 0, r.val)
    /\ UNCHANGED <<variant, th, mem, rcs>>

\* drop(weak) of a projected weak handle
ParcWeakDrop(w) ==
    /\ heap' = ParcWeak_drop(w, heap)
    /\ handles' = handles (-) One(w)
    /\ ret' = Result("ParcWeak::drop", w, 0, NoHandle)
    /\ UNCHANGED <<variant, th, mem, rcs>>

\* weak.upgrade() of a projected weak handle
ParcWeakUpgrade(w) ==
    /\ heap.strong > 0 => Owners < MaxHandles
    /\ LET r == ParcWeak_upgrade(w, heap)
       IN  /\ heap' = r.cb
           /\ handles' = IF r.val = NoHandle THEN handles
                         ELSE handles (+) One(r.val)
           /\ ret' = Result("ParcWeak::upgrade", w,
                            IF r.val = NoHandle THEN 0 ELSE 1, r.val)
    /\ UNCHANGED <<variant, th, mem, rcs>>

Next ==
    \/ RcClone
    \/ RcDrop
    \/ New
    \/ \E h \in LiveStrong : Clone(h)
    \/ \E h \in LiveStrong : Drop(h)
    \/ \E h \in LiveStrong : Downgrade(h)
    \/ \E h \in LiveStrong : StrongCount(h)
    \/ \E h \in LiveStrong : WeakCount(h)
    \/ \E w \in LiveWeak : CloneWeak(w)
    \/ \E w \in LiveWeak : DropWeak(w)
    \/ \E w \in LiveWeak : Upgrade(w)
    \/ \E w \in LiveWeak : StrongCountWeak(w)
    \/ \E w \in LiveWeak : WeakCountWeak(w)
    \/ ParcFrom
    \/ \E p \in LiveParc : \E f \in Transforms : ParcProject(p, f)
    \/ \E p \in LiveParc : ParcClone(p)
    \/ \E p \in LiveParc : ParcDrop(p)
    \/ \E p \in LiveParc : ParcDowngrade(p)
    \/ \E p \in LiveParc : ParcDeref(p)
    \/ \E p \in LiveParc : \E v \in Vals : ParcWrite(p, v)
    \/ \E p \in LiveParc : ParcRead(p)
    \/ \E w \in LiveParcWeak : ParcWeakClone(w)
    \/ \E w \in LiveParcWeak : ParcWeakDrop(w)
    \/ \E w \in LiveParcWeak : ParcWeakUpgrade(w)

Spec == Init /\ [][Next]_vars

NoFault == ~heap.fault

\* ------------------------------------------------------------------------
\* The atomic variant under concurrency.  Each operation of sync ArcErased
\* is split at the atomic accesses alloc::sync makes to the control block;
\* between two of them any other thread may take a step.  A thread that is
\* inside a &self operation holds the handle it was called on in th[t].self.

\* Any access to the control block: its storage must not have been released.
Touch(cb) == IF cb.freed > 0 THEN [cb EXCEPT !.fault = TRUE] ELSE cb

\* Mutant of UpgradeCas: check, then increment, as two separate steps.
UpgradeCas_CheckThenIncrement(n, cb) ==
    IF n = 0 THEN [done |-> TRUE, ok |-> FALSE, n |-> n, cb |-> Touch(cb)]
    ELSE [done |-> TRUE, ok |-> TRUE, n |-> n, cb |-> IncStrong(Touch(cb))]

\* Mutant of UpgradeCas: a strong count of 0 is taken for a count to wait
\* on, and read again.
UpgradeCas_Spin(n, cb) ==
    IF cb.strong = n /\ n > 0
    THEN [done |-> TRUE, ok |-> TRUE, n |-> n, cb |-> IncStrong(Touch(cb))]
    ELSE [done |-> FALSE, ok |-> FALSE, n |-> cb.strong, cb |-> Touch(cb)]

\* The compare-and-swap of Weak::upgrade's fetch_update(checked_increment),
\* with n the strong count last observed: None at 0, the increment when the
\* count is still n, else another round with the count seen now.
UpgradeCas(n, cb) ==
    IF n = 0 THEN [done |-> TRUE, ok |-> FALSE, n |-> n, cb |-> Touch(cb)]
    ELSE IF cb.strong = n
         THEN [done |-> TRUE, ok |-> TRUE, n |-> n, cb |-> IncStrong(Touch(cb))]
         ELSE [done |-> FALSE, ok |-> FALSE, n |-> cb.strong, cb |-> Touch(cb)]

\* Mutant of DowngradeCas: the count read earlier, plus one, is stored
\* without comparing.
DowngradeCas_Store(n, cb) ==
    [done |-> TRUE, n |-> n, cb |-> [Touch(cb) EXCEPT !.weak = n + 1]]

\* The compare-and-swap of Arc::downgrade's loop on the weak count.
DowngradeCas(n, cb) ==
    IF cb.weak = n
    THEN [done |-> TRUE, n |-> n, cb |-> IncWeak(Touch(cb))]
    ELSE [done |-> FALSE, n |-> cb.weak, cb |-> Touch(cb)]

\* strong.fetch_sub(1) of Arc's drop
StrongFetchSub(cb) ==
    IF cb.strong = 0 THEN [cb EXCEPT !.fault = TRUE]
    ELSE [Touch(cb) EXCEPT !.strong = @ - 1]

\* weak.fetch_sub(1) of Weak's drop
WeakFetchSub(cb) ==
    IF cb.weak = 0 THEN [cb EXCEPT !.fault = TRUE]
    ELSE [Touch(cb) EXCEPT !.weak = @ - 1]

\* ptr::drop_in_place of the payload, in Arc::drop_slow
DropInPlace(cb) == [Touch(cb) EXCEPT !.data = "dropped", !.dropped = @ + 1]

\* The release of the allocation by the last weak reference.
Dealloc(cb) == [Touch(cb) EXCEPT !.freed = @ + 1]

\* Handles held by threads inside an operation.
Held == {th[t].self : t \in Threads} \ {NoHandle}

\* Live Strong Handles, those held by a running operation included.
AllStrong == NumStrong + Cardinality({t \in Threads : th[t].self.type = "Strong"})

\* Live Weak Handles, those held by a running operation included.
AllWeak == NumWeak + Cardinality({t \in Threads : th[t].self.type = "Weak"})

\* let erased = TypeErasedArc::new(Arc::new(payload)), shared by the threads.
InitAtomic ==
    /\ variant = "ArcErased"
    /\ heap = NewBlock
    /\ mem = InitMem
    /\ rcs = 0
    /\ handles = One(TypeErasedArc_new("ArcErased"))
    /\ ret = Result("new", NoHandle, 0, TypeErasedArc_new("ArcErased"))
    /\ th = [t \in Threads |-> Idle]

\* erased.clone(): one fetch_add on the strong count.
AClone(t, h) ==
    /\ th[t].pc = "idle"
    /\ Owners + Cardinality(Held) < MaxHandles
    /\ LET r == TypeErasedArc_clone(h, heap)
       IN  /\ heap' = r.cb
           /\ handles' = handles (+) One(r.val)
    /\ UNCHANGED <<variant, mem, rcs, ret, th>>

\* weak.clone(): one fetch_add on the weak count.
ACloneWeak(t, w) ==
    /\ th[t].pc = "idle"
    /\ Owners + Cardinality(Held) < MaxHandles
    /\ LET r == TypeErasedWeak_clone(w, heap)
       IN  /\ heap' = r.cb
           /\ handles' = handles (+) One(r.val)
    /\ UNCHANGED <<variant, mem, rcs, ret, th>>

\* drop(erased), first step: the handle is gone, the strong count goes down;
\* the thread that took it from 1 to 0 goes on to destroy the payload.
ADrop(t, h) ==
    /\ th[t].pc = "idle"
    /\ handles' = handles (-) One(h)
    /\ heap' = StrongFetchSub(FromRawArc(h.ptr, heap))
    /\ th' = [th EXCEPT ![t].pc = IF heap.strong = 1 THEN "drop_in_place" ELSE "idle"]
    /\ UNCHANGED <<variant, mem, rcs, ret>>

\* drop_slow: the payload's destructor runs.
ADropInPlace(t) ==
    /\ th[t].pc = "drop_in_place"
    /\ heap' = DropInPlace(heap)
    /\ th' = [th EXCEPT ![t].pc = "drop_implicit_weak"]
    /\ UNCHANGED <<variant, mem, rcs, handles, ret>>

\* drop_slow: the weak reference the strong ones held together is dropped.
ADropImplicitWeak(t) ==
    /\ th[t].pc = "drop_implicit_weak"
    /\ heap' = WeakFetchSub(heap)
    /\ th' = [th EXCEPT ![t].pc = IF heap.weak = 1 THEN "dealloc" ELSE "idle"]
    /\ UNCHANGED <<variant, mem, rcs, handles, ret>>

\* drop(weak), first step: the handle is gone, the weak count goes down.
ADropWeak(t, w) ==
    /\ th[t].pc = "idle"
    /\ handles' = handles (-) One(w)
    /\ heap' = WeakFetchSub(FromRawWeak(w.ptr, heap))
    /\ th' = [th EXCEPT ![t].pc = IF heap.weak = 1 THEN "dealloc" ELSE "idle"]
    /\ UNCHANGED <<variant, mem, rcs, ret>>

\* The thread whose decrement took the weak count to 0 releases the storage.
ADealloc(t) ==
    /\ th[t].pc = "dealloc"
    /\ heap' = Dealloc(heap)
    /\ th' = [th EXCEPT ![t].pc = "idle"]
    /\ UNCHANGED <<variant, mem, rcs, handles, ret>>

\* erased.downgrade(), first step: the weak count is read.
ADowngradeLoad(t, h) ==
    /\ th[t].pc = "idle"
    /\ Owners + Cardinality(Held) < MaxHandles
    /\ handles' = handles (-) One(h)
    /\ heap' = ArcErased_as_manually_drop_arc(h.ptr, heap)
    /\ th' = [th EXCEPT ![t] = [pc |-> "downgrade_cas", self |-> h,
                                n |-> heap.weak, out |-> NoHandle]]
    /\ UNCHANGED <<variant, mem, rcs, ret>>

\* erased.downgrade(), the compare-and-swap; when it lands the Weak Handle exists.
ADowngradeCas(t) ==
    /\ th[t].pc = "downgrade_cas"
    /\ LET r == DowngradeCas(th[t].n, heap)
           w == WeakHandle(WeakPtr, th[t].self.vtable)
       IN  /\ heap' = r.cb
           /\ IF r.done
              THEN /\ handles' = handles (+) One(th[t].self) (+) One(w)
                   /\ th' = [th EXCEPT ![t] = [Idle EXCEPT !.out = w]]
              ELSE /\ handles' = handles
                   /\ th' = [th EXCEPT ![t].n = r.n]
    /\ UNCHANGED <<variant, mem, rcs, ret>>

\* weak.upgrade(), first step: the strong count is read.
AUpgradeLoad(t, w) ==
    /\ th[t].pc = "idle"
    /\ Owners + Cardinality(Held) < MaxHandles
    /\ handles' = handles (-) One(w)
    /\ heap' = ArcErased_as_manually_drop_weak(w.ptr, heap)
    /\ th' = [th EXCEPT ![t] = [pc |-> "upgrade_cas", self |-> w,
                                n |-> heap.strong, out |-> NoHandle]]
    /\ UNCHANGED <<variant, mem, rcs, ret>>

\* weak.upgrade(), the check and the compare-and-swap: None, or the new
\* Strong Handle, or another round.
AUpgradeCas(t) ==
    /\ th[t].pc = "upgrade_cas"
    /\ LET r == UpgradeCas(th[t].n, heap)
           h == StrongHandle(ArcPtr, th[t].self.vtable)
       IN  /\ heap' = r.cb
           /\ IF r.done
              THEN /\ handles' = IF r.ok
                                 THEN handles (+) One(th[t].self) (+) One(h)
                                 ELSE handles (+) One(th[t].self)
                   /\ th' = [th EXCEPT ![t] =
                                [Idle EXCEPT !.out = IF r.ok THEN h ELSE NoHandle,
                                             !.n = th[t].n]]
              ELSE /\ handles' = handles
                   /\ th' = [th EXCEPT ![t].n = r.n]
    /\ UNCHANGED <<variant, mem, rcs, ret>>

\* erased.strong_count(): one load of the strong count.
AStrongCount(t, h) ==
    /\ th[t].pc = "idle"
    /\ LET r == TypeErasedArc_strong_count(h, heap)
       IN  /\ heap' = Touch(r.cb)
           /\ th' = [th EXCEPT ![t] = [Idle EXCEPT !.n = r.val]]
    /\ UNCHANGED <<variant, mem, rcs, handles, ret>>

\* erased.weak_count(): one load of the weak count.
AWeakCount(t, h) ==
    /\ th[t].pc = "idle"
    /\ LET r == TypeErasedArc_weak_count(h, heap)
       IN  /\ heap' = Touch(r.cb)
           /\ th' = [th EXCEPT ![t] = [Idle EXCEPT !.n = r.val]]
    /\ UNCHANGED <<variant, mem, rcs, handles, ret>>

\* weak.strong_count(): one load of the strong count.
AStrongCountWeak(t, w) ==
    /\ th[t].pc = "idle"
    /\ LET r == TypeErasedWeak_strong_count(w, heap)
       IN  /\ heap' = Touch(r.cb)
           /\ th' = [th EXCEPT ![t] = [Idle EXCEPT !.n = r.val]]
    /\ UNCHANGED <<variant, mem, rcs, handles, ret>>

\* weak.weak_count(), first step: the weak count is loaded.
AWeakCountWeakLoad(t, w) ==
    /\ th[t].pc = "idle"
    /\ handles' = handles (-) One(w)
    /\ heap' = Touch(ArcErased_as_manually_drop_weak(w.ptr, heap))
    /\ th' = [th EXCEPT ![t] = [pc |-> "weak_count_strong", self |-> w,
                                n |-> heap.weak, out |-> NoHandle]]
    /\ UNCHANGED <<variant, mem, rcs, ret>>

\* weak.weak_count(), second step: the strong count is loaded; 0 when it is
\* 0, else the weak count loaded before less the implicit reference.
AWeakCountWeakStrong(t) ==
    /\ th[t].pc = "weak_count_strong"
    /\ heap' = Touch(heap)
    /\ handles' = handles (+) One(th[t].self)
    /\ th' = [th EXCEPT ![t] =
                 [Idle EXCEPT !.n = IF heap.strong = 0 THEN 0 ELSE th[t].n - 1]]
    /\ UNCHANGED <<variant, mem, rcs, ret>>

NextAtomic ==
    \E t \in Threads :
        \/ \E h \in LiveStrong : AClone(t, h)
        \/ \E w \in LiveWeak : ACloneWeak(t, w)
        \/ \E h \in LiveStrong : ADrop(t, h)
        \/ ADropInPlace(t)
        \/ ADropImplicitWeak(t)
        \/ \E w \in LiveWeak : ADropWeak(t, w)
        \/ ADealloc(t)
        \/ \E h \in LiveStrong : ADowngradeLoad(t, h)
        \/ ADowngradeCas(t)
        \/ \E w \in LiveWeak : AUpgradeLoad(t, w)
        \/ AUpgradeCas(t)
        \/ \E h \in LiveStrong : AStrongCount(t, h)
        \/ \E h \in LiveStrong : AWeakCount(t, h)
        \/ \E w \in LiveWeak : AStrongCountWeak(t, w)
        \/ \E w \in LiveWeak : AWeakCountWeakLoad(t, w)
        \/ AWeakCountWeakStrong(t)

SpecAtomic == InitAtomic /\ [][NextAtomic]_vars

\* The next step of thread t inside the operation it has started.
Step(t) ==
    \/ ADropInPlace(t)
    \/ ADropImplicitWeak(t)
    \/ ADealloc(t)
    \/ ADowngradeCas(t)
    \/ AUpgradeCas(t)
    \/ AWeakCountWeakStrong(t)

\* A step of another thread changes the count thread t's compare-and-swap
\* loop read, so that t's next compare-and-swap takes another round.
Interferes(t) ==
    /\ th'[t] = th[t]
    /\ \/ th[t].pc = "upgrade_cas" /\ heap'.strong # heap.strong
       \/ th[t].pc = "downgrade_cas" /\ heap'.weak # heap.weak

\* The atomic variant under fair scheduling: a thread inside an operation
\* keeps taking steps, and the other threads change a count under a running
\* compare-and-swap loop a bounded number of times only.
SpecAtomicFair ==
    /\ SpecAtomic
    /\ \A t \in Threads : WF_vars(Step(t))
    /\ <>[][~\E t \in Threads : Interferes(t)]_vars

\* ------------------------------------------------------------------------
\* Comparing and formatting projected handles.  The payload is a struct whose
\* member a is an f32, a TestPEq or a String; the handles compared and
\* formatted are those projected to that member.

PayloadTypes == {"NaN", "One", "TestPEq", "String"}

\* f32::NAN; 1.0f32; TestPEq(RefCell::new(0)); String::from("Hello!")
PayloadOf(k) ==
    CASE k = "NaN" -> [ty |-> "f32", unused |-> 64,
                       a |-> [sign |-> 0, exp |-> 255, frac |-> 4194304]]
      [] k = "One" -> [ty |-> "f32", unused |-> 64,
                       a |-> [sign |-> 0, exp |-> 127, frac |-> 0]]
      [] k = "TestPEq" -> [ty |-> "TestPEq", unused |-> 64, a |-> 0]
      [] k = "String" -> [ty |-> "String", unused |-> 64, a |-> "Hello!"]

\* The two operands of a comparison, as the operation's self.
Operands(x, y) == [type |-> "operands", left |-> x, right |-> y]

\* A value an operation returned: the bool of a comparison, the String of format!.
Returned(v) == [type |-> "value", value |-> v]

\* The projected handles whose view is the member.
LiveMember == {p \in LiveParc : p.projected = "a"}

\* let parc = Parc::new(payload);
InitValue ==
    /\ variant \in Variants
    /\ heap = NewBlock
    /\ \E k \in PayloadTypes : mem = PayloadOf(k)
    /\ rcs = 0
    /\ handles = One(Parc_from(variant))
    /\ ret = Result("Parc::from", NoHandle, 0, Parc_from(variant))
    /\ th = [t \in Threads |-> Idle]

\* x == y
ParcEq(x, y) ==
    /\ mem.ty = "TestPEq" => mem.a + 2 <= MaxCalls
    /\ LET r == Parc_eq(x, y, mem)
       IN  /\ mem' = r.mem
           /\ ret' = Result("eq", Operands(x, y), 0, Returned(r.val))
    /\ UNCHANGED <<variant, th, heap, rcs, handles>>

\* x != y
ParcNe(x, y) ==
    /\ mem.ty = "TestPEq" => mem.a + 2 <= MaxCalls
    /\ LET r == Parc_ne(x, y, mem)
       IN  /\ mem' = r.mem
           /\ ret' = Result("ne", Operands(x, y), 0, Returned(r.val))
    /\ UNCHANGED <<variant, th, heap, rcs, handles>>

\* format!("{}", projected)
ParcFmt(p) ==
    /\ mem.ty = "String"
    /\ ret' = Result("fmt", p, 0, Returned(Parc_fmt(p, mem)))
    /\ UNCHANGED <<variant, th, heap, mem, rcs, handles>>

NextValue ==
    \/ \E p \in LiveParc : \E f \in Transforms : ParcProject(p, f)
    \/ \E p \in LiveParc : ParcClone(p)
    \/ \E p \in LiveParc : ParcDrop(p)
    \/ \E x \in LiveMember : \E y \in LiveMember : ParcEq(x, y)
    \/ \E x \in LiveMember : \E y \in LiveMember : ParcNe(x, y)
    \/ \E p \in LiveMember : ParcFmt(p)

SpecValue == InitValue /\ [][NextValue]_vars

\* ------------------------------------------------------------------------
\* Properties

StrongDropOps == {"drop", "Parc::drop", "Arc::drop"}

WeakOps == {"downgrade", "clone_weak", "drop_weak", "Parc::downgrade",
            "ParcWeak::clone", "ParcWeak::drop"}

UpgradeOps == {"upgrade", "ParcWeak::upgrade"}

\* C1: the payload's destructor has run zero times in every state in which a
\* strong instance (a Strong Handle, a clone of it, or an un-erased Rc/Arc
\* owner) is alive, and exactly once when all of them have been dropped,
\* whatever the number of clones and the order of the drops.
C1_DestructorOnce ==
    /\ StrongOwners > 0 => heap.dropped = 0 /\ heap.data = "live"
    /\ StrongOwners = 0 => heap.dropped = 1 /\ heap.data = "dropped"

\* The last of several instances has just been dropped.
C1_Witness ==
    /\ ret.op = "drop"
    /\ StrongOwners = 0
    /\ heap.dropped = 1

\* C2: strong_count read through any live Strong Handle or any live Weak
\* Handle equals the number of live strong owners of the origin: the live
\* Strong Handles, no un-erased owner being left once new has taken it over.
C2_StrongCount ==
    /\ \A h \in StrongParts :
           TypeErasedArc_strong_count(h, heap).val = StrongOwners
    /\ \A w \in WeakParts :
           TypeErasedWeak_strong_count(w, heap).val = StrongOwners
    /\ ret.op \in {"strong_count", "strong_count_weak"} => ret.val = StrongOwners

\* strong_count was read through a Weak Handle while two Strong Handles,
\* and nothing else, own the allocation.
C2_Witness ==
    /\ ret.op = "strong_count_weak"
    /\ ret.val = 2
    /\ NumStrong = 2
    /\ rcs = 0

\* C3: while a Strong Handle is alive, weak_count read through any live
\* Strong or Weak Handle equals the number of live Weak Handles.
C3_WeakCount ==
    StrongOwners > 0 =>
        /\ \A h \in StrongParts :
               TypeErasedArc_weak_count(h, heap).val = NumWeak
        /\ \A w \in WeakParts :
               TypeErasedWeak_weak_count(w, heap).val = NumWeak
        /\ ret.op \in {"weak_count", "weak_count_weak"} => ret.val = NumWeak

\* weak_count was read through a Strong Handle with two Weak Handles alive.
C3_Witness ==
    /\ ret.op = "weak_count"
    /\ ret.val = 2
    /\ NumWeak = 2
    /\ NumStrong > 0

\* C4: once no strong owner is left, weak_count read through any remaining
\* Weak Handle is 0, however many Weak Handles are alive.
C4_WeakCountDead ==
    StrongOwners = 0 =>
        /\ \A w \in WeakParts : TypeErasedWeak_weak_count(w, heap).val = 0
        /\ ret.op = "weak_count_weak" => ret.val = 0

\* weak_count was read through a Weak Handle, two of them being alive after
\* the last strong owner was dropped.
C4_Witness ==
    /\ ret.op = "weak_count_weak"
    /\ ret.val = 0
    /\ StrongOwners = 0
    /\ NumWeak >= 2

\* C5: upgrade returns a Strong Handle if and only if a strong owner of the
\* same origin is alive when it is called, and nothing otherwise.
C5_UpgradeIff ==
    [][ret'.op = "upgrade" =>
          /\ (ret'.out # NoHandle) <=> (StrongOwners > 0)
          /\ ret'.out # NoHandle =>
                 /\ ret'.out.type = "Strong"
                 /\ handles' = handles (+) One(ret'.out)
          /\ ret'.out = NoHandle => handles' = handles]_vars

\* An upgrade has failed.
C5_WitnessFail == ret.op = "upgrade" /\ ret.out = NoHandle /\ NumWeak > 0

\* An upgrade has succeeded.
C5_Witness == ret.op = "upgrade" /\ ret.out # NoHandle /\ NumStrong >= 2

\* C6: once the last strong owner is gone, no strong owner ever exists
\* again: the strong count stays 0, the payload stays destroyed (its
\* destructor is not run again), and every upgrade returns nothing.
C6_DeathPermanent ==
    [][StrongOwners = 0 =>
          /\ StrongOwners' = 0
          /\ heap'.strong = 0
          /\ heap'.data = "dropped"
          /\ heap'.dropped = heap.dropped
          /\ \A w \in WeakParts : TypeErasedWeak_strong_count(w, heap).val = 0
          /\ ret'.op \in UpgradeOps => ret'.out = NoHandle]_vars

\* An upgrade was tried, and failed, after the payload's destruction.
C6_Witness ==
    /\ ret.op = "upgrade"
    /\ ret.out = NoHandle
    /\ heap.dropped = 1
    /\ NumWeak > 0

\* C7: atomic variant.  In every interleaving of an upgrade with the drop of
\* the last Strong Handle, the upgrade returns nothing or it returns a Strong
\* Handle whose payload is not destroyed: whenever a Strong Handle exists the
\* payload is live and its storage not released, no step touches released
\* storage, and an upgrade that finds the count changed under it takes
\* another round instead of incrementing.
C7_UpgradeRace ==
    /\ AllStrong > 0 => heap.data = "live" /\ heap.freed = 0 /\ heap.strong > 0
    /\ ~heap.fault
    /\ \A t \in Threads :
           ~(th[t].pc = "idle" /\ th[t].out.type = "Strong" /\ th[t].n = 0)

\* An upgrade read a nonzero strong count, and before its compare-and-swap
\* another thread dropped the last Strong Handle.
C7_Witness ==
    \E t \in Threads :
        /\ th[t].pc = "upgrade_cas"
        /\ th[t].n > 0
        /\ heap.strong = 0
        /\ AllStrong = 0

\* C8: the drop of the last strong owner runs the destructor whether or not
\* Weak Handles are alive, and creating, cloning or dropping a Weak Handle
\* never runs it.
C8_WeakDoesNotKeepAlive ==
    [][/\ (ret'.op \in StrongDropOps /\ StrongOwners = 1) =>
              heap'.dropped = heap.dropped + 1 /\ heap'.data = "dropped"
       /\ ret'.op \in WeakOps =>
              heap'.dropped = heap.dropped /\ heap'.data = heap.data]_vars

\* The last Strong Handle was dropped, and the destructor ran, with a Weak
\* Handle alive.
C8_Witness ==
    /\ ret.op = "drop"
    /\ heap.dropped = 1
    /\ NumWeak > 0

\* A Weak Handle was dropped after the payload's destruction.
C8_WitnessWeakDrop ==
    /\ ret.op = "drop_weak"
    /\ heap.dropped = 1

\* C9: the upgrade of a projected weak handle succeeds exactly when the
\* upgrade of its weak owner does, which is when a strong owner is alive; the
\* view address is carried unchanged from the projected handle through
\* downgrade, weak clone and upgrade, so the new handle dereferences to what
\* that address holds; and a failed upgrade returns nothing and touches
\* neither the control block nor the payload.
C9_DowngradeUpgrade ==
    [][/\ ret'.op = "Parc::downgrade" =>
              /\ ret'.out.type = "ParcWeak"
              /\ ret'.out.projected = ret'.self.projected
       /\ ret'.op = "ParcWeak::clone" =>
              ret'.out.projected = ret'.self.projected
       /\ ret'.op = "ParcWeak::upgrade" =>
              /\ (ret'.out # NoHandle) <=>
                     (TypeErasedWeak_upgrade(ret'.self.weak, heap).val # NoHandle)
              /\ (ret'.out # NoHandle) <=> (StrongOwners > 0)
              /\ ret'.out # NoHandle =>
                     /\ ret'.out.type = "Parc"
                     /\ ret'.out.projected = ret'.self.projected
                     /\ heap'.data = "live"
                     /\ ~Parc_deref(ret'.out, mem', heap').cb.fault
                     /\ Parc_deref(ret'.out, mem', heap').val
                            = ReadView(ret'.self.projected, mem)
              /\ ret'.out = NoHandle =>
                     /\ heap' = heap
                     /\ mem' = mem
                     /\ handles' = handles]_vars

\* A projected weak handle of member a was upgraded to a projected handle.
C9_Witness ==
    /\ ret.op = "ParcWeak::upgrade"
    /\ ret.out # NoHandle
    /\ ret.self.projected = "a"

\* The upgrade of a projected weak handle failed, every strong owner gone.
C9_WitnessFail ==
    /\ ret.op = "ParcWeak::upgrade"
    /\ ret.out = NoHandle
    /\ StrongOwners = 0

\* C10: while a projected handle (or a clone of one) is alive, the owner's
\* payload is not destroyed and its storage not released, also when no
\* un-projected strong owner is left: its view can be dereferenced.
C10_ParcKeepsAlive ==
    LiveParc # {} =>
        /\ heap.data = "live"
        /\ heap.dropped = 0
        /\ heap.freed = 0
        /\ \A p \in LiveParc : ~Parc_deref(p, mem, heap).cb.fault

\* Only handles projected to member a are left: the original projected
\* handle of the whole payload was the last other owner, and was dropped.
C10_Witness ==
    /\ ret.op = "Parc::drop"
    /\ ret.self.projected = "payload"
    /\ rcs = 0
    /\ LiveStrong = {}
    /\ LiveParc # {}
    /\ \A p \in LiveParc : p.projected = "a"

\* C11: projection aliases and does not copy.  A value written through any
\* projected handle, the original of the whole payload or one projected to
\* member a, is the value read afterwards through every live projected
\* handle; the write moves no handle's view address, a read returns what the
\* owner's payload holds at the address fixed at projection, and no step
\* changes the view address of a handle that stays alive.
C11_ProjectionAliases ==
    [][/\ ret'.op = "write" =>
              /\ handles' = handles
              /\ heap' = heap
              /\ mem'.unused = mem.unused
              /\ \A p \in LiveParc :
                     /\ Parc_read(p, mem', heap').val = ret'.val
                     /\ ~Parc_read(p, mem', heap').cb.fault
       /\ ret'.op = "read" =>
              /\ ret'.val = mem.a
              /\ \A p \in LiveParc : Parc_read(p, mem, heap).val = ret'.val
              /\ mem' = mem
              /\ handles' = handles
       /\ \A h \in BagToSet(handles') : h \in Live \/ h = ret'.out]_vars

\* 15 was written through the view of member a and is read through a handle
\* of the whole payload, which holds 432 at construction.
C11_Witness ==
    /\ ret.op = "read"
    /\ ret.self.projected = "payload"
    /\ ret.val = 15
    /\ \E p \in LiveParc : p.projected = "a"

\* 15 was written through a handle of the whole payload while a handle
\* projected to member a is alive.
C11_WitnessWrite ==
    /\ ret.op = "write"
    /\ ret.self.projected = "payload"
    /\ mem.a = 15
    /\ \E p \in LiveParc : p.projected = "a"

\* C12: each == and each != of projected handles calls the view type's
\* equality exactly once, with each operand addressed once, also when a
\* handle is compared with itself: an equality that counts its calls on both
\* operands sees its counter go up by exactly 2 per comparison (0, 2, 4 for
\* x == x followed by x != x), == answers what that equality answers and !=
\* the opposite, and nothing else changes.
C12_EqualityOnce ==
    [][(ret'.op \in {"eq", "ne"} /\ mem.ty = "TestPEq") =>
          /\ mem'.a = mem.a + 2
          /\ mem'.a % 2 = 0
          /\ ret'.out.value = (ret'.op = "eq")
          /\ mem'.unused = mem.unused
          /\ heap' = heap
          /\ handles' = handles]_vars

\* x != x on one handle has left the counter at 4: it was the second comparison.
C12_Witness ==
    /\ ret.op = "ne"
    /\ ret.self.left = ret.self.right
    /\ ret.out.value = FALSE
    /\ mem.ty = "TestPEq"
    /\ mem.a = 4

\* C13: == and != of projected handles are decided by the view's value and
\* never by owner or pointer identity: operands viewing a NaN compare != and
\* not ==, also a handle with itself, operands viewing any other value of
\* the one member compare == and not !=; and a projected handle formats as
\* the text of the member it views.
C13_ValueOnly ==
    [][/\ (ret'.op \in {"eq", "ne"} /\ mem.ty = "f32") =>
              /\ ret'.out.value = ((ret'.op = "eq") <=> (mem # PayloadOf("NaN")))
              /\ mem' = mem
       /\ (ret'.op \in {"eq", "ne"} /\ mem.ty = "String") =>
              ret'.out.value = (ret'.op = "eq")
       /\ ret'.op = "fmt" =>
              /\ ret'.out.value = mem[ret'.self.projected]
              /\ ret'.out.value = "Hello!"
              /\ mem' = mem]_vars

\* x != x was true on one handle whose view is a NaN.
C13_Witness ==
    /\ ret.op = "ne"
    /\ ret.self.left = ret.self.right
    /\ ret.out.value = TRUE
    /\ mem.ty = "f32"

\* A projected handle of member a was formatted.
C13_WitnessFmt ==
    /\ ret.op = "fmt"
    /\ ret.self.projected = "a"
    /\ ret.out.value = "Hello!"

\* C14: downgrade of a live Strong Handle always succeeds; it adds exactly
\* one to the weak count and leaves the strong count and the payload as they
\* are; the Strong Handle it was called on stays alive and usable; and the
\* Weak Handle returned addresses the same control block, is tagged weak and
\* carries the same lifecycle table.
C14_DowngradeFrame ==
    /\ [](\A h \in LiveStrong : Owners < MaxHandles => ENABLED Downgrade(h))
    /\ [][ret'.op = "downgrade" =>
              /\ heap'.weak = heap.weak + 1
              /\ TypeErasedArc_weak_count(ret'.self, heap').val
                     = TypeErasedArc_weak_count(ret'.self, heap).val + 1
              /\ heap'.strong = heap.strong
              /\ heap' = [heap EXCEPT !.weak = @ + 1]
              /\ mem' = mem
              /\ ret'.out = WeakHandle(WeakPtr, ret'.self.vtable)
              /\ ret'.out.ptr.addr = ret'.self.ptr.addr
              /\ handles' = handles (+) One(ret'.out)
              /\ ret'.self \in BagToSet(handles')
              /\ ~TypeErasedArc_strong_count(ret'.self, heap').cb.fault]_vars

\* The one Strong Handle left was downgraded a second time.
C14_Witness ==
    /\ ret.op = "downgrade"
    /\ StrongOwners = 1
    /\ heap.weak = 3
    /\ ret.self \in LiveStrong

\* C15: clone of a Strong Handle always succeeds; it adds exactly one to the
\* strong count and leaves the weak count and the payload as they are; the
\* new handle has the same erased pointer and the same lifecycle table as
\* the original, which stays alive.
C15_CloneFrame ==
    /\ [](\A h \in LiveStrong : Owners < MaxHandles => ENABLED Clone(h))
    /\ [][ret'.op = "clone" =>
              /\ heap'.strong = heap.strong + 1
              /\ heap' = [heap EXCEPT !.strong = @ + 1]
              /\ mem' = mem
              /\ ret'.out.ptr = ret'.self.ptr
              /\ ret'.out.vtable = ret'.self.vtable
              /\ ret'.out.type = "Strong"
              /\ handles' = handles (+) One(ret'.out)
              /\ ret'.self \in BagToSet(handles')]_vars

\* A Strong Handle was cloned with a Weak Handle alive.
C15_Witness ==
    /\ ret.op = "clone"
    /\ NumStrong >= 2
    /\ heap.strong = NumStrong + rcs
    /\ NumWeak >= 1

ReadOps == {"strong_count", "weak_count", "strong_count_weak", "weak_count_weak"}

\* What the read named op returns, called on handle h with control block cb.
ReadVia(op, h, cb) ==
    CASE op = "strong_count" -> TypeErasedArc_strong_count(h, cb)
      [] op = "weak_count" -> TypeErasedArc_weak_count(h, cb)
      [] op = "strong_count_weak" -> TypeErasedWeak_strong_count(h, cb)
      [] op = "weak_count_weak" -> TypeErasedWeak_weak_count(h, cb)

\* C16: strong_count and weak_count, on a Strong Handle or on a Weak Handle,
\* are pure reads: the control block (both counts, the payload's status),
\* the payload and the live handles are left as they are, and the same read
\* made again at once returns the same value.
C16_PureReads ==
    [][ret'.op \in ReadOps =>
          /\ heap' = heap
          /\ mem' = mem
          /\ handles' = handles
          /\ rcs' = rcs
          /\ ret'.val = ReadVia(ret'.op, ret'.self, heap).val
          /\ ReadVia(ret'.op, ret'.self, heap').val = ret'.val
          /\ ReadVia(ret'.op, ret'.self, heap').cb = heap']_vars

\* strong_count was read through the only strong owner, with a Weak Handle alive.
C16_Witness ==
    /\ ret.op = "strong_count"
    /\ ret.val = 1
    /\ StrongOwners = 1
    /\ NumWeak >= 1

\* strong_count was read through a Weak Handle after the payload's destruction.
C16_WitnessDead ==
    /\ ret.op = "strong_count_weak"
    /\ ret.val = 0
    /\ heap.dropped = 1

\* C17: a failed upgrade is an absent result and no fault: it returns
\* nothing, leaves the control block (strong count 0, weak count) and the
\* live handles as they are, and the Weak Handle it was called on is still
\* alive and can be upgraded again, cloned, read and dropped without fault.
C17_FailedUpgrade ==
    /\ []((ret.op = "upgrade" /\ ret.out = NoHandle) =>
             /\ ~heap.fault
             /\ heap.strong = 0
             /\ ret.self \in LiveWeak
             /\ ENABLED Upgrade(ret.self)
             /\ ENABLED StrongCountWeak(ret.self)
             /\ ENABLED WeakCountWeak(ret.self)
             /\ ENABLED DropWeak(ret.self)
             /\ Owners < MaxHandles => ENABLED CloneWeak(ret.self)
             /\ TypeErasedWeak_upgrade(ret.self, heap) = [cb |-> heap, val |-> NoHandle]
             /\ ~TypeErasedWeak_clone(ret.self, heap).cb.fault
             /\ ~TypeErasedWeak_strong_count(ret.self, heap).cb.fault
             /\ ~TypeErasedWeak_weak_count(ret.self, heap).cb.fault
             /\ ~TypeErasedWeak_drop(ret.self, heap).fault)
    /\ [][(ret'.op = "upgrade" /\ ret'.out = NoHandle) =>
              /\ heap' = heap
              /\ mem' = mem
              /\ handles' = handles
              /\ rcs' = rcs]_vars

\* An upgrade failed with two Weak Handles alive.
C17_Witness ==
    /\ ret.op = "upgrade"
    /\ ret.out = NoHandle
    /\ NumWeak = 2
    /\ heap.weak = 2

\* The operations of a lifecycle table other than the strong drop.
NonDropOps == {"clone", "downgrade", "strong_count", "weak_count", "clone_weak",
               "drop_weak", "upgrade", "strong_count_weak", "weak_count_weak"}

\* C18, as stated: no execution of clone, downgrade, strong_count,
\* weak_count, clone_weak, drop_weak, upgrade_weak, strong_count_weak or
\* weak_count_weak runs the payload's destructor or releases the
\* allocation's storage.
C18_OnlyStrongDropDeallocates ==
    [][ret'.op \in NonDropOps =>
          /\ heap'.dropped = heap.dropped
          /\ heap'.data = heap.data
          /\ heap'.freed = heap.freed]_vars

\* C18, amended: the payload's destructor runs only inside the strong drop
\* whose decrement reaches zero.  The storage is released inside that drop
\* when no Weak Handle is alive, and otherwise inside the drop of the last
\* Weak Handle, after the strong count has reached zero; no execution of
\* clone, downgrade, strong_count, weak_count, clone_weak, upgrade_weak,
\* strong_count_weak or weak_count_weak, and no other weak drop, runs the
\* destructor or releases the storage.
C18_DeallocatingDrops ==
    [][/\ ret'.op \in NonDropOps =>
              /\ heap'.dropped = heap.dropped
              /\ heap'.data = heap.data
       /\ ret'.op \in NonDropOps \ {"drop_weak"} => heap'.freed = heap.freed
       /\ ret'.op = "drop_weak" =>
              heap'.freed = heap.freed
                  + (IF heap.strong = 0 /\ NumWeak = 1 THEN 1 ELSE 0)
       /\ ret'.op \in StrongDropOps =>
              /\ heap'.dropped = heap.dropped
                     + (IF StrongOwners = 1 THEN 1 ELSE 0)
              /\ heap'.freed = heap.freed
                     + (IF StrongOwners = 1 /\ NumWeak = 0 THEN 1 ELSE 0)
       /\ heap'.freed <= 1]_vars

\* The drop of the last Weak Handle released the storage, the payload having
\* been destroyed by an earlier strong drop.
C18_Witness ==
    /\ ret.op = "drop_weak"
    /\ heap.freed = 1
    /\ heap.dropped = 1
    /\ NumWeak = 0

\* The drop of the last Strong Handle destroyed the payload and released the
\* storage, no Weak Handle being alive.
C18_WitnessStrong ==
    /\ ret.op = "drop"
    /\ heap.freed = 1
    /\ heap.dropped = 1
    /\ Owners = 0

\* No operation is in flight.
Quiescent == \A t \in Threads : th[t].pc = "idle"

\* C19: atomic variant.  Under every interleaving of clone, drop, downgrade,
\* weak clone, weak drop, upgrade and count reads by the threads, no count
\* update is lost: whenever no operation is in flight, the strong count is
\* the number of live Strong Handles and the weak count the number of live
\* Weak Handles (the allocation tracking one more while a Strong Handle
\* lives), read through any live handle, and the destructor has run once if
\* no Strong Handle is alive and not at all otherwise; no step faults.
C19_NoLostUpdate ==
    /\ ~heap.fault
    /\ Quiescent =>
           /\ heap.strong = NumStrong
           /\ heap.weak = NumWeak + (IF NumStrong > 0 THEN 1 ELSE 0)
           /\ \A h \in LiveStrong :
                  /\ TypeErasedArc_strong_count(h, heap).val = NumStrong
                  /\ TypeErasedArc_weak_count(h, heap).val = NumWeak
           /\ \A w \in LiveWeak :
                  /\ TypeErasedWeak_strong_count(w, heap).val = NumStrong
                  /\ NumStrong > 0 =>
                         TypeErasedWeak_weak_count(w, heap).val = NumWeak
           /\ heap.dropped = (IF NumStrong = 0 THEN 1 ELSE 0)

\* Both threads have completed an operation that returned a handle, one a
\* downgrade and one an upgrade, and nothing is in flight.
C19_Witness ==
    /\ Quiescent
    /\ th["t1"].out.type = "Weak"
    /\ th["t2"].out.type = "Strong"
    /\ NumStrong >= 2
    /\ NumWeak >= 1

\* A downgrade found the weak count changed since it read it, and is about
\* to take another round.
C19_WitnessRetry ==
    \E t \in Threads :
        /\ th[t].pc = "downgrade_cas"
        /\ th[t].n # heap.weak

\* C20: projecting a projected handle flattens.  The owner of the result is
\* a Strong Handle of the original allocation, the same as the source's
\* owner and never the source handle itself; it is one further unit of
\* strong ownership of that allocation; the source stays alive; and the view
\* of the result is what a transform gives on the source's current view, so
\* that projecting a handle of member a gives a handle of member a.
C20_ProjectFlattens ==
    [][ret'.op = "project" =>
          /\ ret'.out.type = "Parc"
          /\ ret'.out.arc = ret'.self.arc
          /\ ret'.out.arc = StrongHandle(ArcPtr, variant)
          /\ heap' = [heap EXCEPT !.strong = @ + 1]
          /\ StrongOwners' = StrongOwners + 1
          /\ handles' = handles (+) One(ret'.out)
          /\ ret'.self \in BagToSet(handles')
          /\ mem' = mem
          /\ ret'.out.projected \in
                 {ret'.self.projected} \cup
                     (IF ret'.self.projected = "payload" THEN {"a"} ELSE {})
          /\ Parc_read(ret'.out, mem', heap').val
                 = Parc_read(ret'.self, mem, heap).val
          /\ ~Parc_read(ret'.out, mem', heap').cb.fault]_vars

\* A handle projected to member a was projected again.
C20_Witness ==
    /\ ret.op = "project"
    /\ ret.self.projected = "a"
    /\ ret.out.projected = "a"
    /\ NumStrong >= 3

\* The operations that return a handle derived from the one they are called on.
DerivingOps == {"clone", "downgrade", "clone_weak", "upgrade"}

\* C21: the (erased pointer, lifecycle table) pair of a handle is fixed at
\* construction: every live handle addresses the allocation and carries the
\* table it was erased with, no step changes the pair of a handle that stays
\* alive, and a handle returned by clone, downgrade, weak clone or upgrade
\* carries the table of the handle it was derived from; so every table
\* operation, the final drop included, is that table's own, on a pointer it
\* produced.
C21_PairingFixed ==
    /\ [](\A h \in StrongParts \cup WeakParts :
              /\ h.vtable = variant
              /\ h.ptr.addr = "alloc")
    /\ [][/\ variant' = variant
          /\ \A h \in BagToSet(handles') : h \in Live \/ h = ret'.out
          /\ (ret'.op \in DerivingOps /\ ret'.out # NoHandle) =>
                 /\ ret'.out.vtable = ret'.self.vtable
                 /\ ret'.out.ptr.addr = ret'.self.ptr.addr
          /\ ret'.op \in {"drop", "drop_weak"} =>
                 /\ ret'.self.vtable = variant
                 /\ handles' = handles (-) One(ret'.self)]_vars

\* The last Strong Handle was dropped through the table of Rc and the
\* payload destroyed, a Weak Handle carrying that table being alive.
C21_Witness ==
    /\ variant = "RcErased"
    /\ ret.op = "drop"
    /\ ret.self.vtable = "RcErased"
    /\ heap.dropped = 1
    /\ \E w \in LiveWeak : w.vtable = "RcErased"

\* C22: no operation waits on another handle or thread.  A thread inside an
\* operation can always take its next step, whatever the other threads are
\* doing, and under fair scheduling every started operation completes: an
\* upgrade racing with a bounded number of clones and drops by other threads
\* returns, with a Strong Handle or with nothing.
C22_NoBlocking ==
    /\ [](\A t \in Threads : th[t].pc # "idle" => ENABLED Step(t))
    /\ \A t \in Threads : (th[t].pc # "idle") ~> (th[t].pc = "idle")
    /\ \A t \in Threads :
           (th[t].pc = "upgrade_cas") ~>
               (th[t].pc = "idle" /\ th[t].out.type \in {"Strong", "none"})

\* An upgrade has to take another round: the strong count it read was
\* changed by the other thread, and is not 0.
C22_Witness ==
    \E t \in Threads :
        /\ th[t].pc = "upgrade_cas"
        /\ th[t].n > 0
        /\ heap.strong > 0
        /\ th[t].n # heap.strong

\* C23: a successful upgrade adds exactly one to the strong count and leaves
\* the weak count, the payload and the storage as they are; the Weak Handle
\* it was called on stays alive and the Strong Handle returned joins the live
\* handles.  When the other strong owners are dropped after it, the handle
\* that is left keeps the payload alive on its own: the strong count is 1,
\* strong_count reads 1 through it, the payload is not destroyed, and its
\* drop is the one that runs the destructor.
C23_UpgradeOwns ==
    [][/\ (ret'.op = "upgrade" /\ ret'.out # NoHandle) =>
              /\ heap'.strong = heap.strong + 1
              /\ heap'.weak = heap.weak
              /\ heap' = [heap EXCEPT !.strong = @ + 1]
              /\ TypeErasedWeak_strong_count(ret'.self, heap').val
                     = TypeErasedWeak_strong_count(ret'.self, heap).val + 1
              /\ TypeErasedWeak_weak_count(ret'.self, heap').val
                     = TypeErasedWeak_weak_count(ret'.self, heap).val
              /\ ret'.out = StrongHandle(ArcPtr, ret'.self.vtable)
              /\ handles' = handles (+) One(ret'.out)
              /\ ret'.self \in BagToSet(handles')
       /\ (/\ ret.op = "upgrade"
           /\ ret.out # NoHandle
           /\ ret'.op \in StrongDropOps
           /\ StrongOwners' = 1
           /\ ret.out \in LiveStrong') =>
              /\ heap'.strong = 1
              /\ heap'.data = "live"
              /\ heap'.dropped = 0
              /\ ~heap'.fault
              /\ TypeErasedArc_strong_count(ret.out, heap').val = 1
              /\ TypeErasedArc_drop(ret.out, heap').dropped = 1
              /\ TypeErasedArc_drop(ret.out, heap').data = "dropped"]_vars

\* An upgrade has succeeded with one other Strong Handle and two Weak Handles
\* alive.
C23_Witness ==
    /\ ret.op = "upgrade"
    /\ ret.out # NoHandle
    /\ NumStrong = 2
    /\ rcs = 0
    /\ NumWeak = 2

\* The other Strong Handle was dropped: one Strong Handle keeps the payload
\* alive, the Weak Handle that was upgraded still being there.
C23_WitnessAlone ==
    /\ ret.op = "drop"
    /\ NumStrong = 1
    /\ rcs = 0
    /\ NumWeak >= 1
    /\ heap.strong = 1
    /\ heap.data = "live"

\* C24: while a strong owner is alive, the clone of a Weak Handle adds
\* exactly one to the weak count and the drop of a Weak Handle takes exactly
\* one from it, as the control block holds it and as weak_count reads it;
\* both leave the strong count, the payload and the storage as they are.  The
\* clone has the pointer and the table of the handle it was cloned from,
\* which stays alive; the drop removes the one handle it was called on.
C24_WeakCloneDropFrame ==
    [][/\ (ret'.op = "clone_weak" /\ StrongOwners > 0) =>
              /\ heap'.weak = heap.weak + 1
              /\ heap' = [heap EXCEPT !.weak = @ + 1]
              /\ TypeErasedWeak_weak_count(ret'.self, heap').val
                     = TypeErasedWeak_weak_count(ret'.self, heap).val + 1
              /\ ret'.out.type = "Weak"
              /\ ret'.out.ptr = ret'.self.ptr
              /\ ret'.out.vtable = ret'.self.vtable
              /\ handles' = handles (+) One(ret'.out)
              /\ ret'.self \in BagToSet(handles')
       /\ (ret'.op = "drop_weak" /\ StrongOwners > 0) =>
              /\ heap'.weak = heap.weak - 1
              /\ heap' = [heap EXCEPT !.weak = @ - 1]
              /\ \A h \in LiveStrong :
                     TypeErasedArc_weak_count(h, heap').val
                         = TypeErasedArc_weak_count(h, heap).val - 1
              /\ handles' = handles (-) One(ret'.self)
       /\ ret'.op \in {"clone_weak", "drop_weak"} =>
              /\ mem' = mem
              /\ rcs' = rcs
              /\ heap'.strong = heap.strong]_vars

\* A Weak Handle was cloned with a Strong Handle alive: weak_count reads 2.
C24_Witness ==
    /\ ret.op = "clone_weak"
    /\ NumStrong >= 1
    /\ NumWeak = 2
    /\ \E h \in LiveStrong : TypeErasedArc_weak_count(h, heap).val = 2

\* A Weak Handle was dropped with a Strong Handle and another Weak Handle
\* alive.
C24_WitnessDrop ==
    /\ ret.op = "drop_weak"
    /\ NumStrong >= 1
    /\ NumWeak = 1
    /\ heap.weak = 2

\* C25: TypeErasedArc::new takes over the unit of ownership of the Rc/Arc it
\* is given and changes no count: the control block is as before, one
\* un-erased owner has become one Strong Handle, and the handle reads the
\* counts of the allocation it was built from, strong_count 1 and
\* weak_count 0 for a fresh one.  A handle built from a clone of an Arc
\* shares the Arc's control block: the drop of the un-erased original takes
\* one from the strong count the handle reads and does not destroy the
\* payload.
C25_NewTakesOver ==
    [][/\ ret'.op = "new" =>
              /\ heap' = heap
              /\ rcs' = rcs - 1
              /\ ret'.out = StrongHandle(ArcPtr, variant)
              /\ handles' = handles (+) One(ret'.out)
              /\ StrongOwners' = StrongOwners
              /\ TypeErasedArc_strong_count(ret'.out, heap').val = heap.strong
              /\ TypeErasedArc_weak_count(ret'.out, heap').val = heap.weak - 1
              /\ ~TypeErasedArc_strong_count(ret'.out, heap').cb.fault
              /\ heap = NewBlock =>
                     /\ TypeErasedArc_strong_count(ret'.out, heap').val = 1
                     /\ TypeErasedArc_weak_count(ret'.out, heap').val = 0
       /\ (ret.op = "new" /\ ret'.op = "Arc::drop") =>
              /\ ret.out \in LiveStrong'
              /\ heap'.data = "live"
              /\ heap'.dropped = 0
              /\ ~heap'.fault
              /\ TypeErasedArc_strong_count(ret.out, heap').val
                     = TypeErasedArc_strong_count(ret.out, heap).val - 1
              /\ TypeErasedArc_strong_count(ret.out, heap').val >= 1]_vars

\* A Strong Handle was built from a fresh allocation: it is the only owner.
C25_Witness ==
    /\ ret.op = "new"
    /\ heap = NewBlock
    /\ rcs = 0
    /\ handles = One(ret.out)

\* The Arc a Strong Handle was built from a clone of has been dropped: the
\* handle is the only owner and the payload is alive.
C25_WitnessShared ==
    /\ ret.op = "Arc::drop"
    /\ rcs = 0
    /\ handles = One(StrongHandle(ArcPtr, variant))
    /\ heap.strong = 1
    /\ heap.data = "live"

\* C26: the storage of the control block is released exactly once, in the
\* step that leaves no strong owner and no Weak Handle alive, whichever kind
\* is dropped last: it is released in every state without a live owner and
\* in no other.  No operation touches the control block after the release
\* (none is enabled, and no access to released storage was ever made), and
\* no count stays above zero without a handle that accounts for it.
C26_ReleasedOnceNoLeak ==
    /\ heap.freed = (IF StrongOwners = 0 /\ NumWeak = 0 THEN 1 ELSE 0)
    /\ ~heap.fault
    /\ heap.strong = StrongOwners
    /\ heap.weak = NumWeak + (IF StrongOwners > 0 THEN 1 ELSE 0)
    /\ heap.dropped = (IF StrongOwners = 0 THEN 1 ELSE 0)
    /\ heap.freed = 1 =>
           /\ Live = {}
           /\ heap.strong = 0
           /\ heap.weak = 0
           /\ ~ENABLED Next

\* The storage was released by the drop of the last Weak Handle, after the
\* last strong owner.
C26_Witness ==
    /\ ret.op = "drop_weak"
    /\ heap.freed = 1
    /\ Owners = 0
    /\ heap.weak = 0

\* The storage was released by the drop of the last Strong Handle, after the
\* last Weak Handle.
C26_WitnessStrongLast ==
    /\ ret.op = "drop"
    /\ ret.self.vtable = "ArcErased"
    /\ heap.freed = 1
    /\ Owners = 0
    /\ heap.strong = 0

\* The payload is destroyed and the storage is kept for a Weak Handle.
C26_WitnessKept ==
    /\ heap.dropped = 1
    /\ heap.freed = 0
    /\ NumWeak = 2

\* C27: the three lifecycle tables (RcErased, the ManuallyDrop-based
\* ArcErased and the forget-based ArcErased) are interchangeable in
\* single-threaded use.  In every reachable state, each operation a live
\* handle allows gives, through any of the three tables, the same result
\* (count read, upgrade outcome, pointer returned) and the same control block
\* afterwards (counts, payload destroyed or not, number of destructor runs,
\* storage released or not); the tables start from the same control block,
\* so by induction on the sequence of operations they make the same
\* observations at every step.
C27_VariantsAgree ==
    \A v \in Variants :
        /\ StrongParts # {} =>
               /\ vtable_clone(v, ArcPtr, heap) = vtable_clone(variant, ArcPtr, heap)
               /\ vtable_drop(v, ArcPtr, heap) = vtable_drop(variant, ArcPtr, heap)
               /\ vtable_downgrade(v, ArcPtr, heap)
                      = vtable_downgrade(variant, ArcPtr, heap)
               /\ vtable_strong_count(v, ArcPtr, heap)
                      = vtable_strong_count(variant, ArcPtr, heap)
               /\ vtable_weak_count(v, ArcPtr, heap)
                      = vtable_weak_count(variant, ArcPtr, heap)
               /\ vtable_strong_count(v, ArcPtr, heap).val = StrongOwners
               /\ vtable_weak_count(v, ArcPtr, heap).val = NumWeak
        /\ WeakParts # {} =>
               /\ vtable_clone_weak(v, WeakPtr, heap)
                      = vtable_clone_weak(variant, WeakPtr, heap)
               /\ vtable_drop_weak(v, WeakPtr, heap)
                      = vtable_drop_weak(variant, WeakPtr, heap)
               /\ vtable_upgrade_weak(v, WeakPtr, heap)
                      = vtable_upgrade_weak(variant, WeakPtr, heap)
               /\ vtable_strong_count_weak(v, WeakPtr, heap)
                      = vtable_strong_count_weak(variant, WeakPtr, heap)
               /\ vtable_weak_count_weak(v, WeakPtr, heap)
                      = vtable_weak_count_weak(variant, WeakPtr, heap)
               /\ vtable_strong_count_weak(v, WeakPtr, heap).val = StrongOwners
               /\ (vtable_upgrade_weak(v, WeakPtr, heap).val # NoPtr)
                      <=> (StrongOwners > 0)
        /\ StrongParts \cup WeakParts # {} =>
               TypeErasedArc_new(v).ptr = TypeErasedArc_new(variant).ptr
        /\ heap.dropped = (IF StrongOwners = 0 THEN 1 ELSE 0)

\* Under the forget-based table: the payload is destroyed, two Weak Handles
\* are alive and an upgrade has failed.
C27_Witness ==
    /\ variant = "ArcErasedForget"
    /\ ret.op = "upgrade"
    /\ ret.out = NoHandle
    /\ heap.dropped = 1
    /\ NumWeak = 2

\* Under the table of Rc: a Strong Handle and a Weak Handle are alive and a
\* count was read.
C27_WitnessRc ==
    /\ variant = "RcErased"
    /\ ret.op = "weak_count"
    /\ ret.val = 1
    /\ NumStrong = 2
    /\ NumWeak = 1

\* The operations of a lifecycle table that take a pointer to an Rc/Arc.
StrongTableOps == {"clone", "drop", "downgrade", "strong_count", "weak_count"}

\* The operations of a lifecycle table that take a pointer to a Weak.
WeakTableOps == {"clone_weak", "drop_weak", "upgrade", "strong_count_weak",
                 "weak_count_weak"}

C28_WitnessUpgrade ==
    /\ ret.op = "upgrade"
    /\ ret.self.ptr.of = "Weak"
    /\ ret.out.type = "Strong"
    /\ ret.out.ptr.of = "Arc"

====
